---- MODULE Spec2Model ----
(***************************************************************************)
(* Model of SolDriver.verifyAssets (src/src/SolDriver.ts): the recursive   *)
(* walk of an $and / $or / leaf condition tree, the per-asset balance      *)
(* resolution (snapshot or remote request), the validation of the asset's  *)
(* ranges, the defaulting of ownershipTimes and the amount checks under    *)
(* the two satisfaction policies.                                          *)
(*                                                                         *)
(* A tree is a table of nodes (node 1 is the root); an evaluation is a     *)
(* stack of verifyAssets activations, one step per synchronous stretch of  *)
(* the code between two awaits.                                            *)
(***************************************************************************)
EXTENDS Integers, Sequences, FiniteSets, TLC

VARIABLES
  tree,       \* the caller's condition tree object (ownershipTimes is assigned, l.146)
  orig,       \* the tree as the caller wrote it (never assigned)
  tree0,      \* the tree at the start of the current top-level call
  address,    \* the address argument
  snapshot,   \* the balancesSnapshot argument: [def, map]
  ledger,     \* what the remote balance service holds, per collection and address
  now,        \* Date.now()
  stack,      \* the verifyAssets activations, innermost last
  ret,        \* the completion being delivered to the innermost activation
  pending,    \* the axios.post in flight, if any
  log,        \* what the current top-level call has done so far
  parked,     \* a second top-level call, while the first one runs: its own state
  shared,     \* whether the two calls were given the same tree object
  overlap,    \* whether the two calls have been in progress at the same time
  sigIn,      \* the arguments of a verifySignature call
  sigOut      \* its completion

\* What verifyAssets and the clock never touch.
others == <<parked, shared, overlap, sigIn, sigOut>>

vars == <<tree, orig, tree0, address, snapshot, ledger, now, stack, ret, pending, log,
          parked, shared, overlap, sigIn, sigOut>>

\* ---------------------------------------------------------------- bounds

MaxNodes == 3     \* nodes of a condition tree
MaxReqs == 2      \* assets of a leaf group
MaxK == 2         \* numMatchesForVerification
MaxClock == 2     \* Date.now() ranges over 1..MaxClock

\* ---------------------------------------------------------------- values

Range(s, e) == [start |-> s, end |-> e]

\* An optional field: undefined, or defined with value v.
Undefined == [def |-> FALSE, v |-> <<>>]
Defined(x) == [def |-> TRUE, v |-> x]

Bal(a, ids, times) == [amount |-> a, badgeIds |-> ids, ownershipTimes |-> times]

Req(ch, coll, ids, times, amt) ==
  [chain |-> ch, collectionId |-> coll, assetIds |-> ids,
   ownershipTimes |-> times, mustOwnAmounts |-> amt]

\* Completions of an activation.
NoRet == [kind |-> "none", err |-> "", info |-> <<>>]
Returned == [kind |-> "return", err |-> "", info |-> <<>>]
Thrown(e, i) == [kind |-> "throw", err |-> e, info |-> i]

\* The expected negative outcomes; every other thrown error is a validation
\* or infrastructure failure.
PolicyErrs == {"NotEnough", "TooMuch", "Threshold", "NoAlternative", "ListNotMet"}
FatalErrs == {"ListsUnsupported", "AssetIdsInvalid", "TimesInvalid",
              "AmountsInvalid", "ChainUnsupported", "RequestFailed"}

IsDenial(r) == r.kind = "throw" /\ r.err \in PolicyErrs
IsFatal(r) == r.kind = "throw" /\ r.err \in FatalErrs

\* ---------------------------------------------------------------- helpers

RECURSIVE SeqsUpTo(_, _)
SeqsUpTo(S, n) ==
  IF n = 0 THEN {<<>>}
  ELSE LET shorter == SeqsUpTo(S, n - 1)
       IN shorter \cup {Append(s, x) : s \in {t \in shorter : Len(t) = n - 1}, x \in S}

RECURSIVE SortedSeq(_)
SortedSeq(S) ==
  IF S = {} THEN <<>>
  ELSE LET m == CHOOSE x \in S : \A y \in S : x <= y
       IN <<m>> \o SortedSeq(S \ {m})

\* ---------------------------------------------------------------- pure functions

\* convertToCosmosAddress: the chain-neutral key of a chain-native address.
convertToCosmosAddress(a) == IF a = "solA" THEN "cosmosA" ELSE "cosmosB"

\* convertUintRange(x, BigIntify), convertBalance(x, BigIntify): a fresh object
\* with the same bounds and amount as exact integers.
convertUintRange(x) == Range(x.start, x.end)

convertBalance(b) ==
  Bal(b.amount,
      [i \in 1..Len(b.badgeIds) |-> convertUintRange(b.badgeIds[i])],
      [i \in 1..Len(b.ownershipTimes) |-> convertUintRange(b.ownershipTimes[i])])

\* The test the code applies to an entry of assetIds / ownershipTimes and to
\* mustOwnAmounts (l.123, l.133, l.140): both bounds are >= 0.
IsUintRange(x) == x.start >= 0 /\ x.end >= 0

InRange(n, r) == r.start <= n /\ n <= r.end

InRanges(n, rs) == \E i \in 1..Len(rs) : InRange(n, rs[i])

RangesOverlap(rs, qs) ==
  \E i \in 1..Len(rs), j \in 1..Len(qs) :
    /\ rs[i].start <= rs[i].end
    /\ qs[j].start <= qs[j].end
    /\ rs[i].start <= qs[j].end
    /\ qs[j].start <= rs[i].end

\* The amount held of one asset id over the requested times: the sum of the
\* balances that cover the id and overlap a requested time range.
RECURSIVE OwnedAmount(_, _, _)
OwnedAmount(id, times, held) ==
  IF held = <<>> THEN 0
  ELSE (IF InRanges(id, Head(held).badgeIds)
           /\ RangesOverlap(Head(held).ownershipTimes, times)
        THEN Head(held).amount ELSE 0)
       + OwnedAmount(id, times, Tail(held))

\* The ids lo..hi not in `seen`, cut into maximal runs of one owned amount.
RECURSIVE SubRanges(_, _, _, _, _)
SubRanges(lo, hi, seen, times, held) ==
  IF lo > hi THEN <<>>
  ELSE IF lo \in seen THEN SubRanges(lo + 1, hi, seen, times, held)
  ELSE LET a == OwnedAmount(lo, times, held)
           rest == SubRanges(lo + 1, hi, seen, times, held)
       IN IF rest # <<>> /\ Head(rest).badgeIds[1].start = lo + 1
             /\ Head(rest).amount = a
          THEN <<Bal(a, <<Range(lo, Head(rest).badgeIds[1].end)>>, times)>> \o Tail(rest)
          ELSE <<Bal(a, <<Range(lo, lo)>>, times)>> \o rest

RECURSIVE BalancesFrom(_, _, _, _)
BalancesFrom(ids, seen, times, held) ==
  IF ids = <<>> THEN <<>>
  ELSE SubRanges(Head(ids).start, Head(ids).end, seen, times, held)
       \o BalancesFrom(Tail(ids), seen \cup (Head(ids).start..Head(ids).end), times, held)

\* getBalancesForIds (bitbadgesjs-utils): the owned amount of every requested
\* sub-range, the sub-ranges disjoint, amount 0 where nothing is held.
getBalancesForIds(ids, times, held) == BalancesFrom(ids, {}, times, held)

IdsText(b) == [i \in 1..Len(b.badgeIds) |-> <<b.badgeIds[i].start, b.badgeIds[i].end>>]

ListsId == "BitBadges Lists"

\* CheckBalances without the throws of l.165-179 and l.186-201: a sub-range out
\* of range is passed over under either policy.
RECURSIVE CheckBalancesNeverThrows(_, _, _, _, _)
CheckBalancesNeverThrows(balances, asset, addr, mustSatisfyAll, numSatisfied) ==
  IF balances = <<>> THEN [ret |-> NoRet, numSatisfied |-> numSatisfied]
  ELSE IF Head(balances).amount < asset.mustOwnAmounts.start
          \/ Head(balances).amount > asset.mustOwnAmounts.end
       THEN CheckBalancesNeverThrows(Tail(balances), asset, addr, mustSatisfyAll, numSatisfied)
       ELSE CheckBalancesNeverThrows(Tail(balances), asset, addr, mustSatisfyAll,
                                     numSatisfied + 1)

\* CheckBalances with the lower bound exclusive: <= for the < of l.164.
RECURSIVE CheckBalancesExclusiveMin(_, _, _, _, _)
CheckBalancesExclusiveMin(balances, asset, addr, mustSatisfyAll, numSatisfied) ==
  IF balances = <<>> THEN [ret |-> NoRet, numSatisfied |-> numSatisfied]
  ELSE IF Head(balances).amount <= asset.mustOwnAmounts.start
       THEN IF mustSatisfyAll
            THEN [ret |-> Thrown("NotEnough",
                                 <<addr, <<>>, asset.collectionId, asset.mustOwnAmounts.start>>),
                  numSatisfied |-> numSatisfied]
            ELSE CheckBalancesExclusiveMin(Tail(balances), asset, addr, mustSatisfyAll,
                                           numSatisfied)
       ELSE IF Head(balances).amount > asset.mustOwnAmounts.end
       THEN IF mustSatisfyAll
            THEN [ret |-> Thrown("TooMuch",
                                 <<addr, <<>>, asset.collectionId, asset.mustOwnAmounts.end>>),
                  numSatisfied |-> numSatisfied]
            ELSE CheckBalancesExclusiveMin(Tail(balances), asset, addr, mustSatisfyAll,
                                           numSatisfied)
       ELSE CheckBalancesExclusiveMin(Tail(balances), asset, addr, mustSatisfyAll,
                                      numSatisfied + 1)

\* The loop over the computed balances (l.163-208): the completion it ends
\* with and the count of satisfied sub-ranges.
RECURSIVE CheckBalances(_, _, _, _, _)
CheckBalances(balances, asset, addr, mustSatisfyAll, numSatisfied) ==
  IF balances = <<>> THEN [ret |-> NoRet, numSatisfied |-> numSatisfied]
  ELSE LET balance == Head(balances)
           mustOwnAmount == asset.mustOwnAmounts
       IN IF balance.amount < mustOwnAmount.start
          THEN IF mustSatisfyAll
               THEN IF asset.collectionId = ListsId
                    THEN [ret |-> Thrown("ListNotMet", <<addr>>),
                          numSatisfied |-> numSatisfied]
                    ELSE [ret |-> Thrown("NotEnough",
                                         <<addr, IdsText(balance), asset.collectionId,
                                           mustOwnAmount.start>>),
                          numSatisfied |-> numSatisfied]
               ELSE CheckBalances(Tail(balances), asset, addr, mustSatisfyAll, numSatisfied)
          ELSE IF balance.amount > mustOwnAmount.end
          THEN IF mustSatisfyAll
               THEN IF asset.collectionId = ListsId
                    THEN [ret |-> Thrown("ListNotMet", <<addr>>),
                          numSatisfied |-> numSatisfied]
                    ELSE [ret |-> Thrown("TooMuch",
                                         <<addr, IdsText(balance), asset.collectionId,
                                           mustOwnAmount.end>>),
                          numSatisfied |-> numSatisfied]
               ELSE CheckBalances(Tail(balances), asset, addr, mustSatisfyAll, numSatisfied)
          ELSE CheckBalances(Tail(balances), asset, addr, mustSatisfyAll, numSatisfied + 1)

\* The checks of one BitBadges asset after its balances are resolved
\* (l.118-143): the error thrown, or NoRet.
ValidateAsset(asset) ==
  IF asset.collectionId = ListsId
    THEN Thrown("ListsUnsupported", <<>>)
  ELSE IF ~ \A i \in 1..Len(asset.assetIds) : IsUintRange(asset.assetIds[i])
    THEN Thrown("AssetIdsInvalid", <<>>)
  ELSE IF asset.ownershipTimes.def
          /\ ~ \A i \in 1..Len(asset.ownershipTimes.v) : IsUintRange(asset.ownershipTimes.v[i])
    THEN Thrown("TimesInvalid", <<>>)
  ELSE IF ~ IsUintRange(asset.mustOwnAmounts)
    THEN Thrown("AmountsInvalid", <<>>)
  ELSE NoRet

\* l.145-147: an asset without ownershipTimes is assigned [now, now].
DefaultTimes(asset, at) ==
  IF ~ asset.ownershipTimes.def \/ Len(asset.ownershipTimes.v) = 0
  THEN [asset EXCEPT !.ownershipTimes = Defined(<<Range(at, at)>>)]
  ELSE asset

\* One iteration of the asset loop from l.118 on, with the resolved
\* docBalances: the asset as the iteration leaves it, the time window handed
\* to getBalancesForIds, the completion and the count.
ProcessAsset(asset, docBalances, addr, at, mustSatisfyAll, numSatisfied) ==
  LET bad == ValidateAsset(asset)
      asset2 == DefaultTimes(asset, at)
      balances == getBalancesForIds(
                    [i \in 1..Len(asset2.assetIds) |-> convertUintRange(asset2.assetIds[i])],
                    [i \in 1..Len(asset2.ownershipTimes.v) |->
                       convertUintRange(asset2.ownershipTimes.v[i])],
                    docBalances)
      chk == CheckBalances(balances, asset2, addr, mustSatisfyAll, numSatisfied)
  IN IF bad.kind = "throw"
     THEN [asset |-> asset, window |-> <<>>, balances |-> <<>>, ret |-> bad,
           numSatisfied |-> numSatisfied]
     ELSE [asset |-> asset2, window |-> asset2.ownershipTimes.v, balances |-> balances,
           ret |-> chk.ret, numSatisfied |-> chk.numSatisfied]

\* l.112-114: the snapshot entry of the canonical address, or nothing.
SnapshotBalances(snap, addr) ==
  LET cosmosAddress == convertToCosmosAddress(addr)
  IN IF cosmosAddress \in DOMAIN snap.map
     THEN [i \in 1..Len(snap.map[cosmosAddress]) |-> convertBalance(snap.map[cosmosAddress][i])]
     ELSE <<>>

\* ---------------------------------------------------------------- the tree

\* The state of a top-level call that is not the one running.
Context(st, r, p, l, a, t0, t) ==
  [stack |-> st, ret |-> r, pending |-> p, log |-> l, address |-> a, tree0 |-> t0, tree |-> t]

NoCall == Context(<<>>, NoRet, <<>>, <<>>, "", <<>>, <<>>)

NoSigIn == [message |-> <<>>, signature |-> <<>>]

Node(kind, children, assets, options) ==
  [kind |-> kind, children |-> children, assets |-> assets, options |-> options]

\* l.84-85
numToSatisfyOf(n) == IF n.options = <<>> THEN 0 ELSE n.options[1]

\* l.85 read as a test of the option's presence: a threshold of 0 is a threshold.
mustSatisfyAllOfPresence(n) == n.options = <<>>

mustSatisfyAllOf(n) == numToSatisfyOf(n) = 0

\* ---------------------------------------------------------------- the log

Event(ev, node, i, val) == [ev |-> ev, node |-> node, i |-> i, val |-> val]

Frame(node) == [node |-> node, idx |-> 1, numSatisfied |-> 0]

Top == stack[Len(stack)]

TopNode == tree[Top.node]

Running == stack # <<>>

\* The innermost activation completes with r: it is popped and r is delivered
\* to its caller (or, with no caller left, is the outcome of the call).
Complete(r) ==
  /\ stack' = SubSeq(stack, 1, Len(stack) - 1)
  /\ ret' = r
  /\ log' = Append(log, Event("ret", Top.node, 0, r))

\* The innermost activation moves on to its next item.
Advance(numSatisfied) ==
  /\ stack' = [stack EXCEPT ![Len(stack)] =
                 [@ EXCEPT !.idx = @ + 1, !.numSatisfied = numSatisfied]]
  /\ ret' = NoRet

\* The innermost activation calls verifyAssets on a child.
Invoke(child) ==
  /\ stack' = Append(stack, Frame(child))
  /\ ret' = NoRet
  /\ log' = Append(log, Event("call", child, 0, <<>>))

\* ---------------------------------------------------------------- actions

\* A top-level verifyAssets(address, resources, tree, snapshot) call.
Call ==
  /\ ~ Running
  /\ stack' = <<Frame(1)>>
  /\ ret' = NoRet
  /\ pending' = <<>>
  /\ log' = <<Event("call", 1, 0, <<>>)>>
  /\ tree0' = tree
  /\ UNCHANGED <<others, tree, orig, address, snapshot, ledger, now>>

\* Time passes between calls and while a request is in flight.
Tick ==
  /\ Running => pending # <<>>
  /\ now < MaxClock
  /\ now' = now + 1
  /\ UNCHANGED <<others, tree, orig, tree0, address, snapshot, ledger, stack, ret, pending, log>>

\* l.69-70: the $and loop reaches its next item and awaits its evaluation.
AndCall ==
  /\ Running /\ TopNode.kind = "and" /\ ret = NoRet
  /\ Top.idx <= Len(TopNode.children)
  /\ Invoke(TopNode.children[Top.idx])
  /\ UNCHANGED <<others, tree, orig, tree0, address, snapshot, ledger, now, pending>>

\* AndResume with the child's throw caught and the loop continued.
AndResumeCatches ==
  /\ Running /\ TopNode.kind = "and" /\ ret # NoRet
  /\ Advance(0) /\ log' = log
  /\ UNCHANGED <<others, tree, orig, tree0, address, snapshot, ledger, now, pending>>

\* l.70: the awaited child has completed: a return continues the loop, a
\* throw leaves verifyAssets.
AndResume ==
  /\ Running /\ TopNode.kind = "and" /\ ret # NoRet
  /\ IF ret.kind = "return"
     THEN Advance(0) /\ log' = log
     ELSE Complete(ret)
  /\ UNCHANGED <<others, tree, orig, tree0, address, snapshot, ledger, now, pending>>

\* A driver whose $and never settles once its loop is over.
AndDoneHangs ==
  /\ Running /\ TopNode.kind = "and" /\ ret = NoRet
  /\ Top.idx > Len(TopNode.children)
  /\ UNCHANGED vars

\* l.69-71, l.220: the $and loop is over.
AndDone ==
  /\ Running /\ TopNode.kind = "and" /\ ret = NoRet
  /\ Top.idx > Len(TopNode.children)
  /\ Complete(Returned)
  /\ UNCHANGED <<others, tree, orig, tree0, address, snapshot, ledger, now, pending>>

\* l.73-75: the $or loop reaches its next item and awaits its evaluation.
OrCall ==
  /\ Running /\ TopNode.kind = "or" /\ ret = NoRet
  /\ Top.idx <= Len(TopNode.children)
  /\ Invoke(TopNode.children[Top.idx])
  /\ UNCHANGED <<others, tree, orig, tree0, address, snapshot, ledger, now, pending>>

\* OrResume without the return of l.76: the loop goes on after an acceptance.
OrResumeNoReturn ==
  /\ Running /\ TopNode.kind = "or" /\ ret # NoRet
  /\ Advance(0) /\ log' = log
  /\ UNCHANGED <<others, tree, orig, tree0, address, snapshot, ledger, now, pending>>

\* l.75-79: the awaited child has completed: a return returns (l.76), whatever
\* was thrown is caught and the loop continues (l.77-78).
OrResume ==
  /\ Running /\ TopNode.kind = "or" /\ ret # NoRet
  /\ IF ret.kind = "return"
     THEN Complete(Returned)
     ELSE Advance(0) /\ log' = log
  /\ UNCHANGED <<others, tree, orig, tree0, address, snapshot, ledger, now, pending>>

\* A driver whose $or returns when its loop is over.
OrFailReturns ==
  /\ Running /\ TopNode.kind = "or" /\ ret = NoRet
  /\ Top.idx > Len(TopNode.children)
  /\ Complete(Returned)
  /\ UNCHANGED <<others, tree, orig, tree0, address, snapshot, ledger, now, pending>>

\* l.82: no item of the $or returned.
OrFail ==
  /\ Running /\ TopNode.kind = "or" /\ ret = NoRet
  /\ Top.idx > Len(TopNode.children)
  /\ Complete(Thrown("NoAlternative", <<>>))
  /\ UNCHANGED <<others, tree, orig, tree0, address, snapshot, ledger, now, pending>>

\* What an iteration of the asset loop leaves behind: the asset as assigned,
\* and the loop continued or left by a throw.
FinishAsset(src, doc) ==
  LET i == Top.idx
      asset == TopNode.assets[i]
  IN \E r \in {ProcessAsset(asset, doc, address, now, mustSatisfyAllOf(TopNode),
                            Top.numSatisfied)} :
       LET ev == Event("asset", Top.node, i,
                       [src |-> src, doc |-> doc, asset |-> asset, window |-> r.window,
                        at |-> now, balances |-> r.balances, before |-> Top.numSatisfied,
                        after |-> r.numSatisfied, ret |-> r.ret])
       IN /\ tree' = [tree EXCEPT ![Top.node].assets[i] = r.asset]
          /\ IF r.ret.kind = "throw"
             THEN /\ stack' = SubSeq(stack, 1, Len(stack) - 1)
                  /\ ret' = r.ret
                  /\ log' = log \o <<ev, Event("ret", Top.node, 0, r.ret)>>
             ELSE /\ Advance(r.numSatisfied)
                  /\ log' = Append(log, ev)

\* LeafRequest without the test of l.95: a request is sent with a snapshot too.
LeafRequestAlways ==
  /\ Running /\ TopNode.kind = "leaf" /\ pending = <<>>
  /\ Top.idx <= Len(TopNode.assets)
  /\ TopNode.assets[Top.idx].chain = "BitBadges"
  /\ LET req == <<TopNode.assets[Top.idx].collectionId, convertToCosmosAddress(address)>>
     IN /\ pending' = <<req>>
        /\ log' = Append(log, Event("request", Top.node, Top.idx, req))
  /\ UNCHANGED <<others, tree, orig, tree0, address, snapshot, ledger, now, stack, ret>>

\* l.94-108: a BitBadges asset with no snapshot: the request is sent and awaited.
LeafRequest ==
  /\ Running /\ TopNode.kind = "leaf" /\ pending = <<>>
  /\ Top.idx <= Len(TopNode.assets)
  /\ TopNode.assets[Top.idx].chain = "BitBadges"
  /\ ~ snapshot.def
  /\ LET req == <<TopNode.assets[Top.idx].collectionId, convertToCosmosAddress(address)>>
     IN /\ pending' = <<req>>
        /\ log' = Append(log, Event("request", Top.node, Top.idx, req))
  /\ UNCHANGED <<others, tree, orig, tree0, address, snapshot, ledger, now, stack, ret>>

\* l.106-110: the response arrives and the iteration goes on with its balances.
LeafResponse ==
  /\ Running /\ pending # <<>>
  /\ pending' = <<>>
  /\ LET req == pending[1]
         held == IF req \in DOMAIN ledger THEN ledger[req] ELSE <<>>
         doc == [i \in 1..Len(held) |-> convertBalance(held[i])]
     IN FinishAsset("remote", doc)
  /\ UNCHANGED <<others, orig, tree0, address, snapshot, ledger, now>>

\* A driver that sends a failed request once more before giving up.
LeafRequestFailsRetries ==
  /\ Running /\ pending # <<>>
  /\ LET r == Thrown("RequestFailed", pending[1])
         sent == {e \in DOMAIN log : /\ log[e].ev = "request"
                                     /\ log[e].node = Top.node /\ log[e].i = Top.idx}
     IN IF Cardinality(sent) < 2
        THEN /\ log' = Append(log, Event("request", Top.node, Top.idx, pending[1]))
             /\ UNCHANGED <<stack, ret, pending>>
        ELSE /\ pending' = <<>>
             /\ stack' = SubSeq(stack, 1, Len(stack) - 1)
             /\ ret' = r
             /\ log' = log \o <<Event("failed", Top.node, Top.idx, pending[1]),
                                Event("ret", Top.node, 0, r)>>
  /\ UNCHANGED <<others, tree, orig, tree0, address, snapshot, ledger, now>>

\* l.96: the request fails (transport error, non-2xx status): the rejection is
\* thrown out of verifyAssets.
LeafRequestFails ==
  /\ Running /\ pending # <<>>
  /\ pending' = <<>>
  /\ LET r == Thrown("RequestFailed", pending[1])
     IN /\ stack' = SubSeq(stack, 1, Len(stack) - 1)
        /\ ret' = r
        /\ log' = log \o <<Event("failed", Top.node, Top.idx, pending[1]),
                           Event("ret", Top.node, 0, r)>>
  /\ UNCHANGED <<others, tree, orig, tree0, address, snapshot, ledger, now>>

\* l.111-115: a BitBadges asset with a snapshot: the iteration runs to its end
\* with the snapshot's balances.
LeafSnapshot ==
  /\ Running /\ TopNode.kind = "leaf" /\ pending = <<>>
  /\ Top.idx <= Len(TopNode.assets)
  /\ TopNode.assets[Top.idx].chain = "BitBadges"
  /\ snapshot.def
  /\ FinishAsset("snapshot", SnapshotBalances(snapshot, address))
  /\ UNCHANGED <<others, orig, tree0, address, snapshot, ledger, now, pending>>

\* l.155-159: any other chain.
LeafOtherChain ==
  /\ Running /\ TopNode.kind = "leaf" /\ pending = <<>>
  /\ Top.idx <= Len(TopNode.assets)
  /\ TopNode.assets[Top.idx].chain # "BitBadges"
  /\ LET r == Thrown("ChainUnsupported", <<>>)
     IN /\ stack' = SubSeq(stack, 1, Len(stack) - 1)
        /\ ret' = r
        /\ log' = log \o <<Event("chain", Top.node, Top.idx, TopNode.assets[Top.idx].chain),
                           Event("ret", Top.node, 0, r)>>
  /\ UNCHANGED <<others, tree, orig, tree0, address, snapshot, ledger, now, pending>>

\* LeafDone with <= for the < of l.213.
LeafDoneOffByOne ==
  /\ Running /\ TopNode.kind = "leaf" /\ pending = <<>>
  /\ Top.idx > Len(TopNode.assets)
  /\ Complete(IF mustSatisfyAllOf(TopNode) THEN Returned
              ELSE IF Top.numSatisfied <= numToSatisfyOf(TopNode)
                   THEN Thrown("Threshold",
                               <<address, numToSatisfyOf(TopNode), Top.numSatisfied>>)
                   ELSE Returned)
  /\ UNCHANGED <<others, tree, orig, tree0, address, snapshot, ledger, now, pending>>

\* l.211-217: the asset loop is over.
LeafDone ==
  /\ Running /\ TopNode.kind = "leaf" /\ pending = <<>>
  /\ Top.idx > Len(TopNode.assets)
  /\ Complete(IF mustSatisfyAllOf(TopNode) THEN Returned
              ELSE IF Top.numSatisfied < numToSatisfyOf(TopNode)
                   THEN Thrown("Threshold",
                               <<address, numToSatisfyOf(TopNode), Top.numSatisfied>>)
                   ELSE Returned)
  /\ UNCHANGED <<others, tree, orig, tree0, address, snapshot, ledger, now, pending>>

Next ==
  \/ Call
  \/ Tick
  \/ AndCall
  \/ AndResume
  \/ AndDone
  \/ OrCall
  \/ OrResume
  \/ OrFail
  \/ LeafRequest
  \/ LeafResponse
  \/ LeafRequestFails
  \/ LeafSnapshot
  \/ LeafOtherChain
  \/ LeafDone

\* ---------------------------------------------------------------- inputs

\* What the address may hold of a collection.
NoHoldings == <<>>
ExpiringHoldings == <<Bal(2, <<Range(1, 1)>>, <<Range(0, 1)>>)>>
StackedHoldings ==
  <<Bal(1, <<Range(1, 2)>>, <<Range(0, MaxClock)>>),
    Bal(2, <<Range(2, 2)>>, <<Range(0, MaxClock)>>)>>

LedgerOf(h1, h2, hB) ==
  (<<"1", "cosmosA">> :> h1) @@ (<<"2", "cosmosA">> :> h2) @@ (<<"1", "cosmosB">> :> hB)

Ledgers ==
  {LedgerOf(ExpiringHoldings, StackedHoldings, NoHoldings),
   LedgerOf(StackedHoldings, NoHoldings, ExpiringHoldings)}

NoSnapshot == [def |-> FALSE, map |-> <<>>]

Snapshots ==
  {[def |-> TRUE, map |-> ("cosmosA" :> ExpiringHoldings)],
   [def |-> TRUE, map |-> ("cosmosA" :> StackedHoldings) @@ ("cosmosB" :> ExpiringHoldings)],
   [def |-> TRUE, map |-> ("cosmosB" :> StackedHoldings)]}

BaseReq == Req("BitBadges", "1", <<Range(1, 2)>>, Undefined, Range(1, 2))

\* Requirements that pass the code's checks and differ in what they ask.
PlainReqs ==
  {BaseReq,
   [BaseReq EXCEPT !.assetIds = <<Range(1, 1)>>,
                   !.ownershipTimes = Defined(<<Range(0, 0)>>)],
   [BaseReq EXCEPT !.collectionId = "2", !.assetIds = <<Range(2, 2)>>,
                   !.mustOwnAmounts = Range(3, 3), !.ownershipTimes = Defined(<<>>)]}

\* Requirements with a range out of shape, an unsupported collection or chain.
OddReqs ==
  {[BaseReq EXCEPT !.assetIds = <<Range(-1, 1)>>],
   [BaseReq EXCEPT !.assetIds = <<Range(2, 1)>>],
   [BaseReq EXCEPT !.ownershipTimes = Defined(<<Range(-1, 0)>>)],
   [BaseReq EXCEPT !.mustOwnAmounts = Range(-1, 1)],
   [BaseReq EXCEPT !.mustOwnAmounts = Range(2, 1)],
   [BaseReq EXCEPT !.collectionId = ListsId],
   [BaseReq EXCEPT !.chain = "Solana"]}

\* Asset lists of up to MaxReqs requirements, at most one of them odd.
AssetLists ==
  LET plain == SeqsUpTo(PlainReqs, MaxReqs)
  IN plain \cup UNION {{[s EXCEPT ![i] = o] : i \in 1..Len(s), o \in OddReqs} : s \in plain}

Options == {<<>>} \cup {<<k>> : k \in 0..MaxK}

\* A lone leaf group with any asset list and any options.
LeafTrees == {<<Node("leaf", <<>>, a, o)>> : a \in AssetLists, o \in Options}

\* The leaf groups of the larger trees.
TreeGroups ==
  {<<[BaseReq EXCEPT !.assetIds = <<Range(1, 1)>>]>>,
   <<[BaseReq EXCEPT !.assetIds = <<Range(2, 2)>>, !.mustOwnAmounts = Range(0, 0)]>>,
   <<[BaseReq EXCEPT !.chain = "Solana"]>>}

\* parent[i] < i for every node but the root; the children of a node are the
\* nodes naming it, in increasing order.
Parents(n) == {p \in [1..n -> 0..(n - 1)] : \A i \in 1..n : IF i = 1 THEN p[i] = 0
                                                         ELSE p[i] >= 1 /\ p[i] < i}

ChildrenIn(p, n, i) == SortedSeq({j \in 1..n : p[j] = i})

GroupTrees(n) ==
  {[i \in 1..n |-> Node(k[i], ChildrenIn(p, n, i), IF k[i] = "leaf" THEN g[i] ELSE <<>>, <<>>)] :
     <<p, k, g>> \in {x \in Parents(n) \X [1..n -> {"and", "or", "leaf"}]
                                       \X [1..n -> TreeGroups \cup {<<>>}] :
                        \A i \in 1..n :
                          /\ x[2][i] = "leaf" => ChildrenIn(x[1], n, i) = <<>> /\ x[3][i] # <<>>
                          /\ x[2][i] # "leaf" => x[3][i] = <<>>}}

Trees == LeafTrees \cup UNION {GroupTrees(n) : n \in 2..MaxNodes}

Init ==
  /\ tree \in Trees
  /\ orig = tree
  /\ tree0 = tree
  /\ address = "solA"
  /\ \/ snapshot = NoSnapshot /\ ledger \in Ledgers
     \/ snapshot \in Snapshots
        /\ ledger = LedgerOf(ExpiringHoldings, StackedHoldings, NoHoldings)
  /\ now = 1
  /\ stack = <<>>
  /\ ret = NoRet
  /\ pending = <<>>
  /\ log = <<>>
  /\ parked = NoCall
  /\ shared = FALSE
  /\ overlap = FALSE
  /\ sigIn = NoSigIn
  /\ sigOut = NoRet

Spec == Init /\ [][Next]_vars

\* ---------------------------------------------------------------- reading the log

\* The call has ended: its outcome is `ret`.
Ended == ~ Running /\ ret # NoRet

HasResult(n) == \E i \in DOMAIN log : log[i].ev = "ret" /\ log[i].node = n

Result(n) == log[CHOOSE i \in DOMAIN log : log[i].ev = "ret" /\ log[i].node = n].val

\* Node n took part in the call: it was invoked, or something was done for it.
Touched(n) == \E i \in DOMAIN log : log[i].node = n

RECURSIVE Subtree(_)
Subtree(n) == {n} \cup UNION {Subtree(tree[n].children[i]) : i \in 1..Len(tree[n].children)}

NodesOf(kind) == {n \in DOMAIN tree : tree[n].kind = kind}

ChildResult(n, i) == Result(tree[n].children[i])

ChildDone(n, i) == HasResult(tree[n].children[i])

\* No child of n after the j-th, and nothing below one, took part in the call.
LaterUntouched(n, j) ==
  \A i \in (j + 1)..Len(tree[n].children) :
    \A m \in Subtree(tree[n].children[i]) : ~ Touched(m)

\* ---------------------------------------------------------------- C1

\* C1: an $and node accepts iff every child accepted; otherwise its outcome is
\* what its first non-accepting child threw, every child before that one
\* accepted, and no later child was invoked or had a balance requested.
C1_AndFailFast ==
  \A n \in NodesOf("and") :
    HasResult(n) =>
      IF \A i \in 1..Len(tree[n].children) :
           ChildDone(n, i) /\ ChildResult(n, i).kind = "return"
      THEN Result(n) = Returned
      ELSE \E j \in 1..Len(tree[n].children) :
             /\ \A i \in 1..(j - 1) : ChildDone(n, i) /\ ChildResult(n, i).kind = "return"
             /\ ChildDone(n, j) /\ ChildResult(n, j).kind = "throw"
             /\ Result(n) = ChildResult(n, j)
             /\ LaterUntouched(n, j)

\* An $and of two or more children whose first child denied has ended.
C1_Witness ==
  \E n \in NodesOf("and") :
    /\ Len(tree[n].children) >= 2
    /\ HasResult(n)
    /\ ChildDone(n, 1) /\ IsDenial(ChildResult(n, 1))
    /\ tree[tree[n].children[2]].kind = "leaf"

\* ---------------------------------------------------------------- C2

\* C2: an $or node accepts iff a child accepted: the children before the first
\* accepting one all threw and no later child took part; with no accepting
\* child every child was tried and the node throws "no alternative".
C2_OrShortCircuit ==
  \A n \in NodesOf("or") :
    HasResult(n) =>
      IF \E i \in 1..Len(tree[n].children) :
           ChildDone(n, i) /\ ChildResult(n, i).kind = "return"
      THEN \E j \in 1..Len(tree[n].children) :
             /\ \A i \in 1..(j - 1) : ChildDone(n, i) /\ ChildResult(n, i).kind = "throw"
             /\ ChildDone(n, j) /\ ChildResult(n, j).kind = "return"
             /\ Result(n) = Returned
             /\ LaterUntouched(n, j)
      ELSE /\ \A i \in 1..Len(tree[n].children) :
                ChildDone(n, i) /\ ChildResult(n, i).kind = "throw"
           /\ Result(n) = Thrown("NoAlternative", <<>>)

\* An $or of two or more children whose first child accepted has ended.
C2_Witness ==
  \E n \in NodesOf("or") :
    /\ Len(tree[n].children) >= 2
    /\ HasResult(n)
    /\ ChildDone(n, 1) /\ ChildResult(n, 1).kind = "return"
    /\ tree[tree[n].children[1]].kind = "leaf"
    /\ tree[tree[n].children[2]].kind = "leaf"

\* ---------------------------------------------------------------- C3

\* C3: a validation or infrastructure error thrown by a branch of an $or node
\* is the outcome of the node.
C3_OrPropagatesFatal ==
  \A n \in NodesOf("or") :
    HasResult(n) =>
      \A i \in 1..Len(tree[n].children) :
        (ChildDone(n, i) /\ IsFatal(ChildResult(n, i))) => Result(n) = ChildResult(n, i)

\* ---------------------------------------------------------------- leaf groups

AssetEvents(n) == {e \in DOMAIN log : log[e].node = n /\ log[e].ev = "asset"}

\* What was done for the assets of leaf n: every event but its call and return.
WorkEvents(n) == {e \in DOMAIN log : log[e].node = n /\ log[e].ev \notin {"call", "ret"}}

\* The amount of sub-range b is within the asset's amount range, bounds included.
InAmount(b, asset) ==
  asset.mustOwnAmounts.start <= b.amount /\ b.amount <= asset.mustOwnAmounts.end

OutOfRange(v) == {j \in 1..Len(v.balances) : ~ InAmount(v.balances[j], v.asset)}

WithinRange(v) == {j \in 1..Len(v.balances) : InAmount(v.balances[j], v.asset)}

FirstOf(S) == CHOOSE j \in S : \A k \in S : j <= k

\* The range invariant of the data model: 0 <= start <= end.
WellFormed(r) == 0 <= r.start /\ r.start <= r.end

Malformed(asset) ==
  \/ \E i \in 1..Len(asset.assetIds) : ~ WellFormed(asset.assetIds[i])
  \/ asset.ownershipTimes.def
     /\ \E i \in 1..Len(asset.ownershipTimes.v) : ~ WellFormed(asset.ownershipTimes.v[i])
  \/ ~ WellFormed(asset.mustOwnAmounts)

\* A range of the asset has a negative bound: the malformation l.121-143 test.
NegativeBound(asset) ==
  \/ \E i \in 1..Len(asset.assetIds) : ~ IsUintRange(asset.assetIds[i])
  \/ asset.ownershipTimes.def
     /\ \E i \in 1..Len(asset.ownershipTimes.v) : ~ IsUintRange(asset.ownershipTimes.v[i])
  \/ ~ IsUintRange(asset.mustOwnAmounts)

AtLeastKLeaves == {n \in NodesOf("leaf") : tree[n].options # <<>> /\ tree[n].options[1] > 0}

AllOfLeaves == {n \in NodesOf("leaf") : tree[n].options = <<>> \/ tree[n].options[1] = 0}

\* The leaf ended with a validation or infrastructure error at event e, which
\* is the last thing done for the leaf.
AbortedAt(n, e) ==
  /\ HasResult(n) /\ IsFatal(Result(n))
  /\ \A f \in WorkEvents(n) : f <= e

\* ---------------------------------------------------------------- C4

\* C4: in a leaf group under AtLeastK, a requirement that is reached and has a
\* malformed range, the lists collection or an unsupported chain, or whose
\* balance request fails, ends the group there with a fatal error.
C4_ErrorsFatalUnderAtLeastK ==
  \A n \in AtLeastKLeaves :
    \A e \in WorkEvents(n) :
      LET asset == tree[n].assets[log[e].i]
      IN (\/ log[e].ev = "failed"
          \/ asset.chain # "BitBadges"
          \/ log[e].ev = "asset" /\ asset.collectionId = ListsId
          \/ log[e].ev = "asset" /\ Malformed(asset))
         => AbortedAt(n, e)

\* What holds of the code: the same with "malformed" read as the code tests
\* it, a negative bound.
C4_RaisedErrorsFatalUnderAtLeastK ==
  \A n \in AtLeastKLeaves :
    \A e \in WorkEvents(n) :
      LET asset == tree[n].assets[log[e].i]
      IN (\/ log[e].ev = "failed"
          \/ asset.chain # "BitBadges"
          \/ log[e].ev = "asset" /\ asset.collectionId = ListsId
          \/ log[e].ev = "asset" /\ NegativeBound(asset))
         => AbortedAt(n, e)

\* ---------------------------------------------------------------- C5

\* The denial the claim describes for sub-range b of the asset.
DenialFor(b, asset) ==
  IF b.amount < asset.mustOwnAmounts.start
  THEN Thrown("NotEnough",
              <<address, IdsText(b), asset.collectionId, asset.mustOwnAmounts.start>>)
  ELSE Thrown("TooMuch",
              <<address, IdsText(b), asset.collectionId, asset.mustOwnAmounts.end>>)

\* C5: under AllOf, the first sub-range out of its amount range ends the group
\* with the denial naming address, sub-range, collection and crossed bound,
\* and nothing is done for a later requirement.
C5_AllOfFailFast ==
  \A n \in AllOfLeaves :
    \A e \in AssetEvents(n) :
      LET v == log[e].val
      IN OutOfRange(v) # {} =>
           /\ HasResult(n)
           /\ Result(n) = DenialFor(v.balances[FirstOf(OutOfRange(v))], v.asset)
           /\ \A f \in WorkEvents(n) : log[f].i <= log[e].i

\* An AllOf group of two requirements was denied at its first one, whose first
\* sub-range is in range and whose second is not.
C5_Witness ==
  \E n \in AllOfLeaves :
    /\ Len(tree[n].assets) >= 2
    /\ HasResult(n) /\ IsDenial(Result(n))
    /\ \E e \in AssetEvents(n) :
         /\ log[e].i = 1
         /\ FirstOf(OutOfRange(log[e].val) \cup {3}) = 2

\* ---------------------------------------------------------------- C6

EventOf(n, i) == CHOOSE e \in AssetEvents(n) : log[e].i = i

\* The sub-ranges within range over the first i requirements of leaf n.
RECURSIVE SatisfiedUpTo(_, _)
SatisfiedUpTo(n, i) ==
  IF i = 0 THEN 0
  ELSE Cardinality(WithinRange(log[EventOf(n, i)].val)) + SatisfiedUpTo(n, i - 1)

\* C6: under AtLeastK(k), a group that ended without a fatal error processed
\* every requirement, and is denied, citing k and the count of sub-ranges
\* within range over all requirements, iff that count is below k.
C6_AtLeastKCounts ==
  \A n \in AtLeastKLeaves :
    (HasResult(n) /\ ~ IsFatal(Result(n))) =>
      /\ \A i \in 1..Len(tree[n].assets) : \E e \in AssetEvents(n) : log[e].i = i
      /\ LET k == tree[n].options[1]
             count == SatisfiedUpTo(n, Len(tree[n].assets))
         IN Result(n) = IF count < k THEN Thrown("Threshold", <<address, k, count>>)
                        ELSE Returned

\* An AtLeastK(2) group accepted although a sub-range of it was out of range.
C6_Witness ==
  \E n \in AtLeastKLeaves :
    /\ tree[n].options[1] >= 2
    /\ HasResult(n) /\ Result(n) = Returned
    /\ \E e \in AssetEvents(n) : OutOfRange(log[e].val) # {}

\* ---------------------------------------------------------------- C7

\* C7: a sub-range counts exactly when min <= amount <= max: an iteration that
\* does not throw adds the number of such sub-ranges to the count; for a
\* well-formed amount range, "not enough" is thrown against min for an amount
\* below min and "too much" against max for an amount above max, and under
\* AllOf nothing is thrown when every sub-range is within range.
C7_InclusiveBounds ==
  \A n \in NodesOf("leaf") :
    \A e \in AssetEvents(n) :
      LET v == log[e].val
          amt == v.asset.mustOwnAmounts
      IN /\ v.ret.kind # "throw" => v.after - v.before = Cardinality(WithinRange(v))
         /\ (v.balances # <<>> /\ amt.start <= amt.end) =>
              LET bad == OutOfRange(v)
              IN IF bad = {} \/ n \in AtLeastKLeaves
                 THEN v.ret.kind # "throw"
                 ELSE LET b == v.balances[FirstOf(bad)]
                      IN /\ b.amount < amt.start =>
                              (v.ret.err = "NotEnough" /\ v.ret.info[4] = amt.start)
                         /\ b.amount > amt.end =>
                              (v.ret.err = "TooMuch" /\ v.ret.info[4] = amt.end)

\* A sub-range whose amount equals the lower bound of a proper amount range
\* was counted.
C7_Witness ==
  \E n \in NodesOf("leaf") :
    \E e \in AssetEvents(n) :
      LET v == log[e].val
      IN /\ v.asset.mustOwnAmounts.start < v.asset.mustOwnAmounts.end
         /\ v.ret.kind # "throw"
         /\ v.after = v.before + 1
         /\ Len(v.balances) = 2
         /\ v.balances[1].amount = v.asset.mustOwnAmounts.start

\* ---------------------------------------------------------------- C8

\* C8: with a snapshot, no request is ever sent or in flight, and the balances
\* of every asset are the snapshot's entry for the canonical address, or none
\* when it has no such entry.
C8_SnapshotNoRemote ==
  snapshot.def =>
    /\ pending = <<>>
    /\ \A e \in DOMAIN log :
         /\ log[e].ev \notin {"request", "failed"}
         /\ log[e].ev = "asset" =>
              /\ log[e].val.src = "snapshot"
              /\ log[e].val.doc =
                   (IF convertToCosmosAddress(address) \in DOMAIN snapshot.map
                    THEN snapshot.map[convertToCosmosAddress(address)]
                    ELSE <<>>)

\* A call with a snapshot holding balances of the address has ended after
\* evaluating two leaf groups.
C8_Witness ==
  /\ snapshot.def
  /\ Ended
  /\ \E e \in DOMAIN log : log[e].ev = "asset" /\ log[e].val.doc # <<>>
  /\ \E m, n \in NodesOf("leaf") : m # n /\ AssetEvents(m) # {} /\ AssetEvents(n) # {}

\* ---------------------------------------------------------------- C9

\* C9: when a call has ended, the tree is as it was when the call began.
C9_TreeReadOnly == Ended => tree = tree0

\* ---------------------------------------------------------------- C10

OmitsTimes(asset) == ~ asset.ownershipTimes.def \/ asset.ownershipTimes.v = <<>>

\* C10: a requirement written without time ranges is evaluated, in every call,
\* over the single instant of that evaluation.
C10_OmittedTimesAreNow ==
  \A n \in NodesOf("leaf") :
    \A e \in AssetEvents(n) :
      LET v == log[e].val
      IN (OmitsTimes(orig[n].assets[log[e].i]) /\ v.ret.err \notin FatalErrs)
           => v.window = <<Range(v.at, v.at)>>

\* ---------------------------------------------------------------- two calls at once

\* A first call on a tree: Call, for a call that has not run yet.
CallOnce == log = <<>> /\ Call

\* The running call is suspended at an await (of its request, or of a nested
\* call that has just settled) or has not begun or has ended, and the other call
\* goes on: the two calls exchange places. With one tree object given to
\* both, `tree` is what both of them read and assign.
Switch ==
  /\ Running => (pending # <<>> \/ ret # NoRet)
  /\ parked' = Context(stack, ret, pending, log, address, tree0,
                       IF shared THEN <<>> ELSE tree)
  /\ stack' = parked.stack
  /\ ret' = parked.ret
  /\ pending' = parked.pending
  /\ log' = parked.log
  /\ address' = parked.address
  /\ tree0' = parked.tree0
  /\ tree' = IF shared THEN tree ELSE parked.tree
  /\ overlap' = (overlap \/ (Running /\ parked.stack # <<>>))
  /\ UNCHANGED <<orig, snapshot, ledger, now, shared, sigIn, sigOut>>

PairTrees ==
  {<<Node("leaf", <<>>, a, o)>> : a \in SeqsUpTo(PlainReqs, 1) \ {<<>>}, o \in {<<>>, <<1>>}}
  \cup GroupTrees(2)

InitPair ==
  /\ tree \in PairTrees
  /\ orig = tree
  /\ tree0 = tree
  /\ address = "solA"
  /\ \/ snapshot = NoSnapshot /\ ledger \in Ledgers
     \/ snapshot \in Snapshots
        /\ ledger = LedgerOf(ExpiringHoldings, StackedHoldings, NoHoldings)
  /\ now = 1
  /\ stack = <<>>
  /\ ret = NoRet
  /\ pending = <<>>
  /\ log = <<>>
  /\ shared \in BOOLEAN
  /\ \E a \in {"solA", "solB"} :
       parked = Context(<<>>, NoRet, <<>>, <<>>, a, tree, IF shared THEN <<>> ELSE tree)
  /\ overlap = FALSE
  /\ sigIn = NoSigIn
  /\ sigOut = NoRet

NextPair ==
  \/ CallOnce
  \/ Switch
  \/ Tick
  \/ AndCall
  \/ AndResume
  \/ AndDone
  \/ OrCall
  \/ OrResume
  \/ OrFail
  \/ LeafRequest
  \/ LeafResponse
  \/ LeafRequestFails
  \/ LeafSnapshot
  \/ LeafOtherChain
  \/ LeafDone

SpecPair == InitPair /\ [][NextPair]_vars

\* ---------------------------------------------------------------- C11

\* What a call on tree tr for address addr completes with when it runs alone
\* at instant `at` and its requests are answered.
RECURSIVE AloneAssets(_, _, _, _, _)
AloneAssets(node, i, numSatisfied, addr, at) ==
  IF i > Len(node.assets)
  THEN IF mustSatisfyAllOf(node) \/ numSatisfied >= numToSatisfyOf(node) THEN Returned
       ELSE Thrown("Threshold", <<addr, numToSatisfyOf(node), numSatisfied>>)
  ELSE IF node.assets[i].chain # "BitBadges" THEN Thrown("ChainUnsupported", <<>>)
  ELSE LET key == <<node.assets[i].collectionId, convertToCosmosAddress(addr)>>
           doc == IF snapshot.def THEN SnapshotBalances(snapshot, addr)
                  ELSE IF key \in DOMAIN ledger THEN ledger[key] ELSE <<>>
           r == ProcessAsset(node.assets[i], doc, addr, at, mustSatisfyAllOf(node),
                             numSatisfied)
       IN IF r.ret.kind = "throw" THEN r.ret
          ELSE AloneAssets(node, i + 1, r.numSatisfied, addr, at)

RECURSIVE Alone(_, _, _, _)
Alone(tr, n, addr, at) ==
  LET kids == tr[n].children
      res == [i \in 1..Len(kids) |-> Alone(tr, kids[i], addr, at)]
  IN IF tr[n].kind = "and"
     THEN IF \A i \in 1..Len(kids) : res[i].kind = "return" THEN Returned
          ELSE res[FirstOf({i \in 1..Len(kids) : res[i].kind = "throw"})]
     ELSE IF tr[n].kind = "or"
     THEN IF \E i \in 1..Len(kids) : res[i].kind = "return" THEN Returned
          ELSE Thrown("NoAlternative", <<>>)
     ELSE AloneAssets(tr[n], 1, 0, addr, at)

\* The instants at which the call with log l evaluated its assets.
Instants(l) == {l[e].val.at : e \in {f \in DOMAIN l : l[f].ev = "asset"}}

\* The call with log l, outcome r and address a ran with every request
\* answered and evaluated its assets at one instant, and its outcome is not
\* the one it has alone at that instant.
Disturbed(l, r, a) ==
  /\ r # NoRet
  /\ \A e \in DOMAIN l : l[e].ev # "failed"
  /\ \E t \in Instants(l) : Instants(l) = {t} /\ r # Alone(orig, 1, a, t)

\* C11: two calls that were in progress at the same time each end with the
\* outcome they have alone, also on one tree object.
C11_ConcurrentCallsIndependent ==
  (overlap /\ ~ Running /\ parked.stack = <<>>) =>
    /\ ~ Disturbed(log, ret, address)
    /\ ~ Disturbed(parked.log, parked.ret, parked.address)

\* What holds of the code: the same for two calls given separate tree objects.
C11_SeparateTreesIndependent ==
  (~ shared /\ ~ Running /\ parked.stack = <<>>) =>
    /\ ~ Disturbed(log, ret, address)
    /\ ~ Disturbed(parked.log, parked.ret, parked.address)

\* ---------------------------------------------------------------- C12

\* The requirement, as the caller wrote it, that event e of the log is about.
Requirement(e) == orig[log[e].node].assets[log[e].i]

\* C12: no request is issued for a requirement with a malformed range or with
\* the collection identifier of the lists: it fails on validation first.
C12_ValidationBeforeRequest ==
  \A e \in DOMAIN log :
    log[e].ev = "request" =>
      /\ ~ Malformed(Requirement(e))
      /\ Requirement(e).collectionId # ListsId

\* ---------------------------------------------------------------- C13

ValidationErrs == {"AssetIdsInvalid", "TimesInvalid", "AmountsInvalid"}

\* C13: a requirement with a range that is not 0 <= start <= end, once its
\* balances are there, is rejected with a validation error: it is neither passed
\* over or counted, nor denied as too little or too much.
C13_MalformedRejected ==
  \A e \in DOMAIN log :
    (log[e].ev = "asset" /\ Malformed(Requirement(e))) =>
      /\ log[e].val.ret.kind = "throw"
      /\ log[e].val.ret.err \in ValidationErrs

\* What holds of the code: the same for a range with a negative bound.
C13_NegativeBoundRejected ==
  \A e \in DOMAIN log :
    (log[e].ev = "asset" /\ NegativeBound(Requirement(e))) =>
      /\ log[e].val.ret.kind = "throw"
      /\ log[e].val.ret.err \in ValidationErrs

\* ---------------------------------------------------------------- C14

\* The requests sent for the requirement that event e is about.
RequestsFor(e) ==
  {r \in DOMAIN log : log[r].ev = "request" /\ log[r].node = log[e].node /\ log[e].i = log[r].i}

\* The original statement of C14: without a snapshot, every requirement the
\* evaluation reaches has had exactly one request.
C14_OneRequestPerReached ==
  ~ snapshot.def =>
    \A e \in DOMAIN log :
      log[e].ev \in {"asset", "failed", "chain"} => Cardinality(RequestsFor(e)) = 1

\* C14: without a snapshot, every requirement of chain BitBadges the evaluation
\* reaches has exactly one request, sent just before the requirement is
\* interpreted or the request fails; a requirement of another chain has none;
\* and a failed request ends its leaf group with the request's error, nothing
\* more being done for the group.
C14_OneRequestPerBitBadgesRequirement ==
  ~ snapshot.def =>
    \A e \in DOMAIN log :
      /\ log[e].ev \in {"asset", "failed"} => RequestsFor(e) = {e - 1}
      /\ log[e].ev = "request" => Requirement(e).chain = "BitBadges"
      /\ log[e].ev = "chain" => RequestsFor(e) = {}
      /\ log[e].ev = "failed" =>
           /\ log[e + 1].ev = "ret" /\ log[e + 1].node = log[e].node
           /\ log[e + 1].val = Thrown("RequestFailed", log[e].val)
           /\ AbortedAt(log[e].node, e)

\* A call without a snapshot interpreted a requirement on its response and
\* ended on the failed request of the next requirement.
C14_Witness ==
  /\ ~ snapshot.def /\ Ended
  /\ \E e, f \in DOMAIN log :
       /\ log[e].ev = "asset" /\ log[f].ev = "failed"
       /\ log[e].node = log[f].node /\ log[e].i = 1 /\ log[f].i = 2
       /\ ret = Thrown("RequestFailed", log[f].val)

\* ---------------------------------------------------------------- a call that is let run

\* A step of the evaluation: of the driver between two awaits, or the remote
\* service answering or failing a request.
Step ==
  \/ AndCall
  \/ AndResume
  \/ AndDone
  \/ OrCall
  \/ OrResume
  \/ OrFail
  \/ LeafRequest
  \/ LeafRequestFails
  \/ LeafResponse
  \/ LeafOtherChain
  \/ LeafDone
  \/ LeafSnapshot

\* The trees of the calls that are let run: every nesting of groups, and lone
\* leaf groups of well-formed requirements under either policy.
FairTrees ==
  {<<Node("leaf", <<>>, a, o)>> : a \in SeqsUpTo(PlainReqs, MaxReqs), o \in {<<>>, <<1>>}}
  \cup UNION {GroupTrees(n) : n \in 2..MaxNodes}

FairInit == Init /\ tree \in FairTrees

\* The event loop runs what is ready, and every request is answered or fails.
FairSpec == FairInit /\ [][Next]_vars /\ WF_vars(Step)

\* ---------------------------------------------------------------- C15

\* The call has settled once, as a return or as a throw with one of the
\* driver's errors, and that is the last thing it did.
OneOutcome ==
  /\ ret.kind \in {"return", "throw"}
  /\ ret.kind = "throw" => ret.err \in PolicyErrs \cup FatalErrs
  /\ {e \in DOMAIN log : log[e].ev = "ret" /\ log[e].node = 1} = {Len(log)}
  /\ log[Len(log)].val = ret

\* C15: a call on a finite tree, every request of which is answered or fails,
\* ends, and it ends with exactly one outcome: a return or a thrown error.
C15_TerminatesWithOneOutcome ==
  /\ Running ~> Ended
  /\ [](Ended => OneOutcome)

\* A call on a tree with nested groups ended after a request of its own.
C15_Witness ==
  /\ Ended /\ OneOutcome
  /\ Len(tree) > 1
  /\ \E e \in DOMAIN log : log[e].ev = "request"

\* ---------------------------------------------------------------- C17

\* The groups of kind `kind` without items that the call has settled.
EmptyGroups(kind) == {n \in NodesOf(kind) : tree[n].children = <<>> /\ HasResult(n)}

\* All that was done for node n is its call and, right after, its settlement.
OnlyCalled(n) ==
  \E e \in DOMAIN log :
    /\ {f \in DOMAIN log : log[f].node = n} = {e, e + 1}
    /\ log[e].ev = "call" /\ log[e + 1].ev = "ret"

\* C17: an $and without items returns, an $or without items throws the error
\* of no alternative met, and nothing is looked up for either.
C17_DegenerateGroups ==
  /\ \A n \in EmptyGroups("and") : Result(n) = Returned /\ OnlyCalled(n)
  /\ \A n \in EmptyGroups("or") : Result(n) = Thrown("NoAlternative", <<>>) /\ OnlyCalled(n)

\* A call settled an $and without items and then an $or without items.
C17_Witness ==
  /\ Ended
  /\ EmptyGroups("and") # {} /\ EmptyGroups("or") # {}
  /\ ret = Thrown("NoAlternative", <<>>)

\* ---------------------------------------------------------------- C18

\* Every sub-range computed for a requirement of leaf n is within its amount
\* range.
AllWithinRange(n) == \A e \in AssetEvents(n) : OutOfRange(log[e].val) = {}

\* A requirement of leaf n raised an error: of validation, of the chain, or of
\* its request.
RaisedError(n) ==
  \/ \E e \in AssetEvents(n) : IsFatal(log[e].val.ret)
  \/ \E e \in WorkEvents(n) : log[e].ev \in {"failed", "chain"}

\* The original statement of C18: a group whose option is absent or 0 accepts
\* if and only if every sub-range of every requirement is within its amount
\* range.
C18_AllOfIffWithinRange ==
  \A n \in AllOfLeaves :
    HasResult(n) => (Result(n) = Returned <=> AllWithinRange(n))

\* C18: a group whose option is absent or 0 is evaluated under AllOf: it
\* accepts if and only if no requirement raises an error and every sub-range
\* of every requirement is within its amount range, and it then went through
\* every requirement; a group is under AtLeastK(k), where a sub-range out of
\* range is no denial, only with a positive option k.
C18_PolicyFromOption ==
  \A n \in NodesOf("leaf") :
    HasResult(n) =>
      /\ n \in AllOfLeaves =>
           /\ Result(n) = Returned <=> (~ RaisedError(n) /\ AllWithinRange(n))
           /\ Result(n) = Returned =>
                \A i \in 1..Len(tree[n].assets) : \E e \in AssetEvents(n) : log[e].i = i
           /\ Result(n).kind = "throw" => Result(n).err # "Threshold"
      /\ Result(n).kind = "throw" /\ Result(n).err \in {"NotEnough", "TooMuch"} =>
           n \in AllOfLeaves
      /\ Result(n).kind = "throw" /\ Result(n).err = "Threshold" => n \in AtLeastKLeaves

\* A group with option 0 was denied for a sub-range out of range, of its
\* second requirement.
C18_Witness ==
  \E n \in AllOfLeaves :
    /\ tree[n].options = <<0>>
    /\ HasResult(n) /\ Result(n).kind = "throw" /\ Result(n).err \in {"NotEnough", "TooMuch"}
    /\ \E e \in AssetEvents(n) : log[e].i = 2 /\ OutOfRange(log[e].val) # {}

\* ---------------------------------------------------------------- verifySignature

\* The number of bytes of a signature (64 in nacl), kept small.
SigLen == 2

\* A challenge string: its address field and the rest of its text, character
\* by character; "lone" is an unpaired surrogate, "fffd" the replacement
\* character. The empty string is no challenge.
Addresses == {"addrA", "addrB", "addrShort", "addr0OIl"}

Messages == {<<a, c>> : a \in Addresses, c \in {"nonce", "lone", "fffd"}} \cup {<<>>}

\* Buffer.from(message, 'utf8'): an unpaired surrogate is encoded as the
\* replacement character.
Utf8(message) ==
  [i \in 1..Len(message) |-> IF message[i] = "lone" THEN "fffd" ELSE message[i]]

\* bs58.decode: the bytes of the address, or a throw on a character outside
\* the alphabet. The bytes of "addrShort" are fewer than a public key's.
bs58decode(a) ==
  IF a = "addr0OIl" THEN [ok |-> FALSE, key |-> "", size |-> 0]
  ELSE IF a = "addrShort" THEN [ok |-> TRUE, key |-> "keyShort", size |-> 31]
  ELSE [ok |-> TRUE, key |-> IF a = "addrA" THEN "keyA" ELSE "keyB", size |-> 32]

\* The signature of the holder of public key `key` over the bytes `bytes`.
Sign(key, bytes) == [i \in 1..SigLen |-> <<i, key, bytes>>]

\* A signature in transport: a pair of hex digits per byte, in either case.
Hex(bytes, case) == [i \in 1..Len(bytes) |-> <<case, bytes[i]>>]

NotHex == <<"zz", <<>>>>

\* Buffer.from(signature, 'hex'): the bytes up to the first pair that is not
\* hex digits; what follows is dropped.
RECURSIVE HexDecode(_)
HexDecode(signature) ==
  IF signature = <<>> \/ Head(signature) = NotHex THEN <<>>
  ELSE <<Head(signature)[2]>> \o HexDecode(Tail(signature))

\* nacl.sign.detached.verify: throws on a signature or a key of the wrong
\* size, else tells whether the signature is the key holder's over the bytes.
naclVerify(bytes, sig, pk) ==
  IF Len(sig) # SigLen THEN [thrown |-> "BadSignatureSize", verified |-> FALSE]
  ELSE IF pk.size # 32 THEN [thrown |-> "BadPublicKeySize", verified |-> FALSE]
  ELSE [thrown |-> "", verified |-> sig = Sign(pk.key, bytes)]

\* verifySignature without the test of l.57: it returns whatever nacl says.
verifySignatureUnchecked(message, signature) ==
  IF message = <<>> THEN Thrown("ChallengeMalformed", <<>>)
  ELSE LET pk == bs58decode(message[1])
           v == naclVerify(Utf8(message), HexDecode(signature), pk)
       IN IF ~ pk.ok THEN Thrown("AddressUndecodable", <<>>)
          ELSE IF v.thrown # "" THEN Thrown(v.thrown, <<>>)
          ELSE Returned

\* l.42-60: the completion of verifySignature(message, signature).
verifySignature(message, signature) ==
  IF message = <<>> THEN Thrown("ChallengeMalformed", <<>>)
  ELSE LET originalAddress == message[1]
           originalBytes == Utf8(message)
           signatureBytes == HexDecode(signature)
           solanaPublicKeyBuffer == bs58decode(originalAddress)
           verified == naclVerify(originalBytes, signatureBytes, solanaPublicKeyBuffer)
       IN IF ~ solanaPublicKeyBuffer.ok THEN Thrown("AddressUndecodable", <<>>)
          ELSE IF verified.thrown # "" THEN Thrown(verified.thrown, <<>>)
          ELSE IF ~ verified.verified THEN Thrown("SignatureInvalid", <<>>)
          ELSE Returned

\* A call of verifySignature settles.
VerifySignature ==
  /\ sigIn # NoSigIn /\ sigOut = NoRet
  /\ sigOut' = verifySignature(sigIn.message, sigIn.signature)
  /\ UNCHANGED <<tree, orig, tree0, address, snapshot, ledger, now, stack, ret, pending, log,
                 parked, shared, overlap, sigIn>>

\* What a caller may hand over as a signature: the signature of a key holder
\* over a message, in hex, as it is or damaged on the way.
Transports ==
  LET signed == {Sign(k, Utf8(m)) : k \in {"keyA", "keyB"}, m \in Messages \ {<<>>}}
      flipped(b) == {[b EXCEPT ![i] = <<i, "flipped", <<>>>>] : i \in 1..Len(b)}
      sent(b) == {Hex(b, "hex"), Hex(b, "HEX")}
                 \cup {Hex(c, "hex") : c \in flipped(b)}
                 \cup {[Hex(b, "hex") EXCEPT ![i] = NotHex] : i \in 1..Len(b)}
                 \cup {Hex(b, "hex") \o <<NotHex>>,
                       Hex(b, "hex") \o <<NotHex, <<"hex", b[1]>>>>,
                       Hex(b, "hex") \o <<<<"hex", b[1]>>>>,
                       Hex(SubSeq(b, 1, Len(b) - 1), "hex")}
  IN UNION {sent(b) : b \in signed}

InitSig ==
  /\ sigIn \in [message : Messages, signature : Transports]
  /\ sigOut = NoRet
  /\ tree = <<>> /\ orig = <<>> /\ tree0 = <<>>
  /\ address = "" /\ snapshot = NoSnapshot
  /\ ledger = LedgerOf(NoHoldings, NoHoldings, NoHoldings)
  /\ now = 1
  /\ stack = <<>> /\ ret = NoRet /\ pending = <<>> /\ log = <<>>
  /\ parked = NoCall /\ shared = FALSE /\ overlap = FALSE

NextSig == VerifySignature

SpecSig == InitSig /\ [][NextSig]_vars

\* ---------------------------------------------------------------- C16

\* The signature scheme's predicate was asked, and what it said.
Asked(message, signature) ==
  /\ message # <<>> /\ bs58decode(message[1]).ok
  /\ naclVerify(Utf8(message), HexDecode(signature), bs58decode(message[1])).thrown = ""

Holds(message, signature) ==
  naclVerify(Utf8(message), HexDecode(signature), bs58decode(message[1])).verified

\* The message with its address field replaced by address a.
ClaimedBy(message, a) == [message EXCEPT ![1] = a]

\* C16: verifySignature returns exactly when the predicate holds of the
\* message's bytes, the decoded signature and the key decoded from the
\* message's address; it throws 'Signature Invalid' exactly when the predicate
\* says no; and the message and signature it returns for are invalid for
\* every other address that is a key.
C16_VerifiesExactlyThePredicate ==
  sigOut # NoRet =>
    LET m == sigIn.message
        s == sigIn.signature
    IN /\ sigOut = Returned <=> (Asked(m, s) /\ Holds(m, s))
       /\ sigOut = Thrown("SignatureInvalid", <<>>) <=> (Asked(m, s) /\ ~ Holds(m, s))
       /\ sigOut = Returned =>
            \A a \in Addresses \ {m[1]} :
              bs58decode(a).size = 32 =>
                verifySignature(ClaimedBy(m, a), s) = Thrown("SignatureInvalid", <<>>)

\* verifySignature returned for a signature that arrived with something after
\* its last byte, over a message with an unpaired surrogate.
C16_Witness ==
  /\ sigOut = Returned
  /\ sigIn.message[2] = "lone"
  /\ Len(sigIn.signature) > SigLen

====
